---- MODULE Spec2Model ----
(***************************************************************************)
(* Smart Funding Advisor: the scoring engine of matcher.py and the two     *)
(* recommendation endpoints of main.py built on it.                        *)
(*                                                                         *)
(* Text is modelled as a tuple of one-character strings, so that lower(),  *)
(* split() and substring containment are computed rather than assumed.     *)
(***************************************************************************)
EXTENDS Integers, Sequences, FiniteSets, TLC

\* Optional[...]: None is the empty tuple, a present value v is <<v>>
None == <<>>

Some(v) == <<v>>

IsNone(o) == o = <<>>

Val(o) == o[1]

(* ------------------------------ text --------------------------------- *)

UpperLetters == <<"A","B","C","D","E","F","G","H","I","J","K","L","M",
                  "N","O","P","Q","R","S","T","U","V","W","X","Y","Z">>

LowerLetters == <<"a","b","c","d","e","f","g","h","i","j","k","l","m",
                  "n","o","p","q","r","s","t","u","v","w","x","y","z">>

\* the characters of the model's texts, in code point order
Alphabet == <<" ", ",", "-">> \o <<"0","1","2","6">> \o UpperLetters \o LowerLetters

Ord(ch) == CHOOSE k \in DOMAIN Alphabet : Alphabet[k] = ch

LowerChar(ch) ==
    IF \E k \in DOMAIN UpperLetters : UpperLetters[k] = ch
    THEN LowerLetters[CHOOSE k \in DOMAIN UpperLetters : UpperLetters[k] = ch]
    ELSE ch

\* str.lower()
lower(s) == [k \in DOMAIN s |-> LowerChar(s[k])]

\* str.replace(old, new) for one-character old and new
replace(s, old, new) == [k \in DOMAIN s |-> IF s[k] = old THEN new ELSE s[k]]

\* str.split() with no separator: the maximal runs of non-blank characters
RECURSIVE SplitFrom(_, _, _)
SplitFrom(s, k, cur) ==
    IF k > Len(s)
    THEN IF cur = <<>> THEN <<>> ELSE <<cur>>
    ELSE IF s[k] = " "
         THEN (IF cur = <<>> THEN <<>> ELSE <<cur>>) \o SplitFrom(s, k + 1, <<>>)
         ELSE SplitFrom(s, k + 1, Append(cur, s[k]))

split(s) == SplitFrom(s, 1, <<>>)

\* Python's "a in b" on strings: a occurs in b as a contiguous run
IsSubstring(a, b) ==
    \E off \in 0..(Len(b) - Len(a)) : \A k \in 1..Len(a) : b[off + k] = a[k]

\* Python's "<" on strings: lexicographic by code point
RECURSIVE StrLess(_, _)
StrLess(a, b) ==
    IF a = <<>> THEN b # <<>>
    ELSE IF b = <<>> THEN FALSE
    ELSE IF a[1] = b[1] THEN StrLess(Tail(a), Tail(b))
    ELSE Ord(a[1]) < Ord(b[1])

\* sorted(set of strings)
RECURSIVE sorted(_)
sorted(S) ==
    IF S = {} THEN <<>>
    ELSE LET m == CHOOSE x \in S : \A y \in S \ {x} : StrLess(x, y)
         IN <<m>> \o sorted(S \ {m})

Range(seq) == {seq[k] : k \in DOMAIN seq}

Abs(n) == IF n < 0 THEN 0 - n ELSE n

Max(a, b) == IF a >= b THEN a ELSE b

(* --------------------------- vocabulary ------------------------------ *)

T_fi == <<"f","i">>
T_FI == <<"F","I">>
T_finland == <<"f","i","n","l","a","n","d">>
T_Finland == <<"F","i","n","l","a","n","d">>
T_eu == <<"e","u">>
T_EU == <<"E","U">>
T_europe == <<"e","u","r","o","p","e">>
T_nordic == <<"n","o","r","d","i","c">>
T_Nordic == <<"N","o","r","d","i","c">>
T_US == <<"U","S">>
T_SE == <<"S","E">>
T_se == <<"s","e">>

T_pre_seed == <<"p","r","e","-","s","e","e","d">>
T_seed == <<"s","e","e","d">>
T_growth == <<"g","r","o","w","t","h">>
T_scale_up == <<"s","c","a","l","e","-","u","p">>
T_Seed == <<"S","e","e","d">>
T_idea == <<"i","d","e","a">>

T_RDI == <<"R","D","I">>
T_rdi == <<"r","d","i">>
T_internationalization ==
    <<"i","n","t","e","r","n","a","t","i","o","n","a","l","i","z","a","t","i","o","n">>
T_investments == <<"i","n","v","e","s","t","m","e","n","t","s">>
T_Investments == <<"I","n","v","e","s","t","m","e","n","t","s">>
T_working_capital == <<"w","o","r","k","i","n","g"," ","c","a","p","i","t","a","l">>
T_bogus == <<"b","o","g","u","s">>

T_all == <<"a","l","l">>
T_ALL == <<"A","L","L">>
T_software_AI == <<"s","o","f","t","w","a","r","e",","," ","A","I">>
T_software == <<"s","o","f","t","w","a","r","e">>
T_Software == <<"S","o","f","t","w","a","r","e">>
T_air == <<"a","i","r">>
T_soft == <<"s","o","f","t">>
T_health == <<"h","e","a","l","t","h">>
T_Unknown == <<"U","n","k","n","o","w","n">>
T_62010 == <<"6","2","0","1","0">>
T_empty == <<>>

\* matcher.py:11 and matcher.py:12
STAGES == <<T_pre_seed, T_seed, T_growth, T_scale_up>>

FUNDING_NEED_TYPES == {T_RDI, T_internationalization, T_investments, T_working_capital}

(* ------------------------- matcher.py: scoring ------------------------ *)

\* One entry of the reasons list: the f-string that was appended (text) and the
\* values interpolated into it (args).
Reason(criterion, text, args) == [criterion |-> criterion, text |-> text, args |-> args]

\* Add with the score assigned instead of accumulated (score = delta)
Add_assigns(acc, delta, reason) ==
    [acc EXCEPT !.score = delta, !.reasons = Append(@, reason)]

\* score += delta; reasons.append(reason)
Add(acc, delta, reason) ==
    [acc EXCEPT !.score = @ + delta, !.reasons = Append(@, reason)]

\* score = 0; reasons = [] (matcher.py:45-46); raised tells whether an exception
\* has left score_instrument
NewScore == [score |-> 0, reasons |-> <<>>, raised |-> FALSE]

\* geography_fit with the Finnish branch's region list reused for every company, so
\* that "nordic" counts for a non-Finnish company too
geography_fit_nordic_everywhere(acc, company, instrument) ==
    LET company_country == lower(company.country)
        geos_lower == {lower(instrument.geography[k]) : k \in DOMAIN instrument.geography}
    IN IF company_country \in {T_finland, T_fi}
       THEN IF T_fi \in geos_lower
            THEN Add(acc, 4, Reason("geography", "explicitly covers FI", <<>>))
            ELSE IF \E g \in {T_eu, T_europe, T_nordic} : g \in geos_lower
            THEN Add(acc, 1, Reason("geography", "regional (EU / Nordic)", <<>>))
            ELSE Add(acc, 0 - 8, Reason("geography", "does not appear to cover Finland",
                                        <<instrument.geography>>))
       ELSE IF company_country \in geos_lower
            THEN Add(acc, 2, Reason("geography", "explicitly covers company country",
                                    <<company.country>>))
            ELSE IF \E g \in {T_eu, T_europe, T_nordic} : g \in geos_lower
            THEN Add(acc, 1, Reason("geography", "EU-wide", <<>>))
            ELSE Add(acc, 0 - 5, Reason("geography", "fit uncertain", <<company.country>>))

\* geography_fit with the penalty of the other branch (-5) for a Finnish company too
geography_fit_one_penalty(acc, company, instrument) ==
    LET company_country == lower(company.country)
        geos_lower == {lower(instrument.geography[k]) : k \in DOMAIN instrument.geography}
    IN IF company_country \in {T_finland, T_fi}
       THEN IF T_fi \in geos_lower
            THEN Add(acc, 4, Reason("geography", "explicitly covers FI", <<>>))
            ELSE IF \E g \in {T_eu, T_europe, T_nordic} : g \in geos_lower
            THEN Add(acc, 1, Reason("geography", "regional (EU / Nordic)", <<>>))
            ELSE Add(acc, 0 - 5, Reason("geography", "does not appear to cover Finland",
                                        <<instrument.geography>>))
       ELSE IF company_country \in geos_lower
            THEN Add(acc, 2, Reason("geography", "explicitly covers company country",
                                    <<company.country>>))
            ELSE IF \E g \in {T_eu, T_europe} : g \in geos_lower
            THEN Add(acc, 1, Reason("geography", "EU-wide", <<>>))
            ELSE Add(acc, 0 - 5, Reason("geography", "fit uncertain", <<company.country>>))

\* matcher.py:48-70
geography_fit(acc, company, instrument) ==
    LET company_country == lower(company.country)
        geos_lower == {lower(instrument.geography[k]) : k \in DOMAIN instrument.geography}
    IN IF company_country \in {T_finland, T_fi}
       THEN IF T_fi \in geos_lower
            THEN Add(acc, 4, Reason("geography", "explicitly covers FI", <<>>))
            ELSE IF \E g \in {T_eu, T_europe, T_nordic} : g \in geos_lower
            THEN Add(acc, 1, Reason("geography", "regional (EU / Nordic)", <<>>))
            ELSE Add(acc, 0 - 8, Reason("geography", "does not appear to cover Finland",
                                        <<instrument.geography>>))
       ELSE IF company_country \in geos_lower
            THEN Add(acc, 2, Reason("geography", "explicitly covers company country",
                                    <<company.country>>))
            ELSE IF \E g \in {T_eu, T_europe} : g \in geos_lower
            THEN Add(acc, 1, Reason("geography", "EU-wide", <<>>))
            ELSE Add(acc, 0 - 5, Reason("geography", "fit uncertain", <<company.country>>))

\* stage_order.get(s), matcher.py:73
stage_order(s) ==
    IF \E k \in DOMAIN STAGES : STAGES[k] = s
    THEN Some((CHOOSE k \in DOMAIN STAGES : STAGES[k] = s) - 1)
    ELSE None

\* stage_fit with the adjacency test widened to a gap of at most 2
stage_fit_gap_two(acc, company, instrument) ==
    IF company.stage \in Range(instrument.target_stages)
    THEN Add(acc, 5, Reason("stage", "in target stages",
                            <<company.stage, instrument.target_stages>>))
    ELSE LET comp_idx == stage_order(company.stage)
             inst_idxs == {Val(stage_order(s)) :
                              s \in {t \in Range(instrument.target_stages) :
                                        ~IsNone(stage_order(t))}}
         IN IF ~IsNone(comp_idx) /\ \E idx \in inst_idxs : Abs(Val(comp_idx) - idx) <= 2
            THEN Add(acc, 2, Reason("stage", "adjacent to target stages",
                                    <<company.stage, instrument.target_stages>>))
            ELSE Add(acc, 0 - 4, Reason("stage", "not aligned with target stages",
                                        <<company.stage, instrument.target_stages>>))

\* matcher.py:72-85
stage_fit(acc, company, instrument) ==
    IF company.stage \in Range(instrument.target_stages)
    THEN Add(acc, 5, Reason("stage", "in target stages",
                            <<company.stage, instrument.target_stages>>))
    ELSE LET comp_idx == stage_order(company.stage)
             inst_idxs == {Val(stage_order(s)) :
                              s \in {t \in Range(instrument.target_stages) :
                                        ~IsNone(stage_order(t))}}
         IN IF ~IsNone(comp_idx) /\ \E idx \in inst_idxs : Abs(Val(comp_idx) - idx) = 1
            THEN Add(acc, 2, Reason("stage", "adjacent to target stages",
                                    <<company.stage, instrument.target_stages>>))
            ELSE Add(acc, 0 - 4, Reason("stage", "not aligned with target stages",
                                        <<company.stage, instrument.target_stages>>))

\* need_overlap with the coverage taken over the instrument's needs
need_overlap_instrument_coverage(acc, company, instrument) ==
    LET company_needs == {lower(n) : n \in Range(company.funding_need_types)}
        instrument_needs == {lower(n) : n \in Range(instrument.funding_need_types)}
        overlap == company_needs \cap instrument_needs
    IN IF overlap # {}
       THEN IF Cardinality(overlap) = Max(Cardinality(instrument_needs), 1)
            THEN Add(acc, 6, Reason("needs", "fully covered", <<>>))
            ELSE Add(acc, 4, Reason("needs", "partially covered", sorted(overlap)))
       ELSE Add(acc, 0 - 4, Reason("needs", "no overlap", <<>>))

\* matcher.py:87-101; coverage == 1 is len(overlap) / max(len(company_needs), 1) == 1
need_overlap(acc, company, instrument) ==
    LET company_needs == {lower(n) : n \in Range(company.funding_need_types)}
        instrument_needs == {lower(n) : n \in Range(instrument.funding_need_types)}
        overlap == company_needs \cap instrument_needs
    IN IF overlap # {}
       THEN IF Cardinality(overlap) = Max(Cardinality(company_needs), 1)
            THEN Add(acc, 6, Reason("needs", "fully covered", <<>>))
            ELSE Add(acc, 4, Reason("needs", "partially covered", sorted(overlap)))
       ELSE Add(acc, 0 - 4, Reason("needs", "no overlap", <<>>))

\* Python truthiness of an Optional[int]: None and 0 are false
Truthy(o) == ~IsNone(o) /\ Val(o) # 0

\* amount_fit with "if c_min or c_max" for "is not None", so that an amount of 0
\* counts as not provided
amount_fit_truthiness(acc, company, instrument) ==
    LET c_min == company.funding_amount_min
        c_max == company.funding_amount_max
        i_min == instrument.min_amount
        i_max == instrument.max_amount
    IN IF Truthy(c_min) \/ Truthy(c_max)
       THEN IF ~IsNone(i_min) /\ ~IsNone(c_max) /\ Val(c_max) < Val(i_min)
            THEN Add(acc, 0 - 5, Reason("amount", "max below instrument minimum",
                                        <<Val(c_max), Val(i_min)>>))
            ELSE IF ~IsNone(i_max) /\ ~IsNone(c_min) /\ Val(c_min) > Val(i_max)
            THEN Add(acc, 0 - 5, Reason("amount", "min above instrument maximum",
                                        <<Val(c_min), Val(i_max)>>))
            ELSE Add(acc, 2, Reason("amount", "overlaps the instrument's range", <<>>))
       ELSE [acc EXCEPT !.reasons = Append(@, Reason("amount", "not provided", <<>>))]

\* matcher.py:103-120
amount_fit(acc, company, instrument) ==
    LET c_min == company.funding_amount_min
        c_max == company.funding_amount_max
        i_min == instrument.min_amount
        i_max == instrument.max_amount
    IN IF ~IsNone(c_min) \/ ~IsNone(c_max)
       THEN IF ~IsNone(i_min) /\ ~IsNone(c_max) /\ Val(c_max) < Val(i_min)
            THEN Add(acc, 0 - 5, Reason("amount", "max below instrument minimum",
                                        <<Val(c_max), Val(i_min)>>))
            ELSE IF ~IsNone(i_max) /\ ~IsNone(c_min) /\ Val(c_min) > Val(i_max)
            THEN Add(acc, 0 - 5, Reason("amount", "min above instrument maximum",
                                        <<Val(c_min), Val(i_max)>>))
            ELSE Add(acc, 2, Reason("amount", "overlaps the instrument's range", <<>>))
       ELSE [acc EXCEPT !.reasons = Append(@, Reason("amount", "not provided", <<>>))]

\* industry_match testing containment in one direction only (tok in ind)
industry_match_one_direction(acc, company, instrument) ==
    LET industry_tokens == Range(split(replace(lower(company.industry), ",", " ")))
        instrument_inds == {lower(instrument.target_industries[k]) :
                               k \in DOMAIN instrument.target_industries}
    IN IF T_all \in instrument_inds
       THEN Add(acc, 1, Reason("industry", "open to all industries", <<>>))
       ELSE IF \E ind \in instrument_inds : \E tok \in industry_tokens :
                   IsSubstring(tok, ind)
            THEN Add(acc, 3, Reason("industry", "matches instrument focus",
                                    <<company.industry, instrument.target_industries>>))
            ELSE Add(acc, 0 - 2, Reason("industry", "not clearly matched",
                                        <<company.industry, instrument.target_industries>>))

\* matcher.py:122-143
industry_match(acc, company, instrument) ==
    LET industry_tokens == Range(split(replace(lower(company.industry), ",", " ")))
        instrument_inds == {lower(instrument.target_industries[k]) :
                               k \in DOMAIN instrument.target_industries}
    IN IF T_all \in instrument_inds
       THEN Add(acc, 1, Reason("industry", "open to all industries", <<>>))
       ELSE IF \E ind \in instrument_inds : \E tok \in industry_tokens :
                   IsSubstring(tok, ind) \/ IsSubstring(ind, tok)
            THEN Add(acc, 3, Reason("industry", "matches instrument focus",
                                    <<company.industry, instrument.target_industries>>))
            ELSE Add(acc, 0 - 2, Reason("industry", "not clearly matched",
                                        <<company.industry, instrument.target_industries>>))

(* The application window is a text; its model is the sequence of its lexical
   pieces: a well-formed YYYY-MM-DD date (with its day number), the en dash,
   a blank, or any other run of characters. *)
DateTok(d) == [tok |-> "date", day |-> d]

DashTok == [tok |-> "dash", day |-> 0]

BlankTok == [tok |-> "blank", day |-> 0]

JunkTok == [tok |-> "junk", day |-> 0]

\* str.split(sep) with the en dash as sep: the parts between dashes, empty parts kept
RECURSIVE SplitDash(_, _, _)
SplitDash(w, k, cur) ==
    IF k > Len(w) THEN <<cur>>
    ELSE IF w[k] = DashTok
         THEN <<cur>> \o SplitDash(w, k + 1, <<>>)
         ELSE SplitDash(w, k + 1, Append(cur, w[k]))

\* str.strip()
RECURSIVE strip(_)
strip(p) ==
    IF p = <<>> THEN p
    ELSE IF Head(p) = BlankTok THEN strip(Tail(p))
    ELSE IF p[Len(p)] = BlankTok THEN strip(SubSeq(p, 1, Len(p) - 1))
    ELSE p

\* matcher.py:148-149: the unpacking needs exactly two parts and strptime needs the
\* second to be one date; any exception gives None, else the end date
parse_window_end(window) ==
    LET parts == SplitDash(window, 1, <<>>)
    IN IF Len(parts) # 2 THEN None
       ELSE LET end_str == strip(parts[2])
            IN IF Len(end_str) = 1 /\ end_str[1].tok = "date"
               THEN Some(end_str[1].day)
               ELSE None

\* application_timing with the 30-day boundary excluded (days_left < 30)
application_timing_open_boundary(acc, instrument, utcnow) ==
    IF instrument.application_type = "call-based"
       /\ ~IsNone(instrument.application_window)
       /\ Val(instrument.application_window) # <<>>
    THEN LET end_date == parse_window_end(Val(instrument.application_window))
         IN IF IsNone(end_date)
            THEN [acc EXCEPT !.reasons =
                      Append(@, Reason("timing", "could not parse application window", <<>>))]
            ELSE LET days_left == Val(end_date) - utcnow
                 IN IF 0 <= days_left /\ days_left < 30
                    THEN Add(acc, 2, Reason("timing", "deadline approaching", <<days_left>>))
                    ELSE IF days_left < 0
                    THEN Add(acc, 0 - 2, Reason("timing", "deadline passed", <<>>))
                    ELSE [acc EXCEPT !.reasons =
                              Append(@, Reason("timing", "call open", <<days_left>>))]
    ELSE IF instrument.application_type = "continuous"
    THEN Add(acc, 1, Reason("timing", "continuous application", <<>>))
    ELSE acc

\* matcher.py:145-163; utcnow is datetime.utcnow().date() as a day number
application_timing(acc, instrument, utcnow) ==
    IF instrument.application_type = "call-based"
       /\ ~IsNone(instrument.application_window)
       /\ Val(instrument.application_window) # <<>>
    THEN LET end_date == parse_window_end(Val(instrument.application_window))
         IN IF IsNone(end_date)
            THEN [acc EXCEPT !.reasons =
                      Append(@, Reason("timing", "could not parse application window", <<>>))]
            ELSE LET days_left == Val(end_date) - utcnow
                 IN IF 0 <= days_left /\ days_left <= 30
                    THEN Add(acc, 2, Reason("timing", "deadline approaching", <<days_left>>))
                    ELSE IF days_left < 0
                    THEN Add(acc, 0 - 2, Reason("timing", "deadline passed", <<>>))
                    ELSE [acc EXCEPT !.reasons =
                              Append(@, Reason("timing", "call open", <<days_left>>))]
    ELSE IF instrument.application_type = "continuous"
    THEN Add(acc, 1, Reason("timing", "continuous application", <<>>))
    ELSE acc

\* matcher.py:41-165
score_instrument(company, instrument, utcnow) ==
    LET a0 == NewScore
        a1 == geography_fit(a0, company, instrument)
        a2 == stage_fit(a1, company, instrument)
        a3 == need_overlap(a2, company, instrument)
        a4 == amount_fit(a3, company, instrument)
        a5 == industry_match(a4, company, instrument)
    IN application_timing(a5, instrument, utcnow)

(* ------------------------------ bounds -------------------------------- *)

\* longest geography, target_stages and funding_need_types list drawn
MaxList == 2

\* the current date ranges over the day numbers 0..MaxDay
MaxDay == 1

SeqsUpTo(S, n) == UNION {[1..k -> S] : k \in 0..n}

\* the handler threads that run at the same time
Workers == {"w1", "w2"}

\* a thread that is not inside rank_instruments
IdleWorker == [company |-> None, idx |-> 0, scored |-> <<>>, pc |-> "idle"]

(* ------------------------- inputs of the scoring ---------------------- *)

\* score_instrument on one input: the input, the clock, the position in the
\* function and its locals score and reasons
VARIABLES company, instrument, today, pc, acc

\* the service: the catalog loaded at startup, the rewrite service's key, and the
\* request being handled with the handler's position and locals
VARIABLES INSTRUMENTS, OPENAI_API_KEY, hpc, request, profile, scored,
          llm_answer, llm_explanations, response, lookup_called, rank_called,
          lookup_answer

\* the handler threads that rank concurrently over the shared catalog, each with
\* the locals of its rank_instruments call
VARIABLES workers

scoreVars == <<company, instrument, today, pc, acc>>

apiVars == <<INSTRUMENTS, OPENAI_API_KEY, hpc, request, profile, scored,
             llm_answer, llm_explanations, response, lookup_called, rank_called,
             lookup_answer, workers>>

\* everything but the shared catalog and the threads' locals
restVars == <<company, instrument, today, pc, acc, OPENAI_API_KEY, hpc, request,
              profile, scored, llm_answer, llm_explanations, response, lookup_called,
              rank_called, lookup_answer>>

vars == <<scoreVars, apiVars>>

\* A scenario is one (company, instrument, date) input, written flat.
\* Three whole scenarios: every criterion at its best, every criterion at its
\* worst, and a mixed one.
BestScenario ==
    [country |-> T_Finland, geography |-> <<T_FI>>,
     stage |-> T_seed, target_stages |-> <<T_seed>>,
     c_needs |-> <<T_RDI>>, i_needs |-> <<T_RDI, T_investments>>,
     c_min |-> Some(50000), c_max |-> Some(200000),
     i_min |-> Some(50000), i_max |-> Some(200000),
     industry |-> T_software_AI, target_industries |-> <<T_all>>,
     application_type |-> "continuous", application_window |-> None,
     today |-> 0]

WorstScenario ==
    [country |-> T_US, geography |-> <<T_SE>>,
     stage |-> T_pre_seed, target_stages |-> <<T_scale_up>>,
     c_needs |-> <<T_investments>>, i_needs |-> <<T_RDI>>,
     c_min |-> None, c_max |-> Some(100000),
     i_min |-> Some(200000), i_max |-> None,
     industry |-> T_Unknown, target_industries |-> <<T_health>>,
     application_type |-> "call-based",
     application_window |-> Some(<<DateTok(0), BlankTok, DashTok, BlankTok, DateTok(0)>>),
     today |-> 1]

MixedScenario ==
    [country |-> T_fi, geography |-> <<T_EU>>,
     stage |-> T_seed, target_stages |-> <<T_growth>>,
     c_needs |-> <<T_RDI, T_investments>>, i_needs |-> <<T_rdi>>,
     c_min |-> None, c_max |-> None,
     i_min |-> None, i_max |-> Some(100000),
     industry |-> T_software_AI, target_industries |-> <<T_air>>,
     application_type |-> "call-based",
     application_window |-> Some(<<DateTok(0), DashTok, DateTok(31 + MaxDay)>>),
     today |-> 0]

Contexts == {BestScenario, WorstScenario, MixedScenario}

\* The values one criterion reads, drawn in full.
Countries == {T_Finland, T_FI, T_fi, T_SE, T_US}

GeoLabels == {T_FI, T_fi, T_EU, T_europe, T_Nordic, T_US, T_se}

GeographyCases ==
    [country : Countries, geography : SeqsUpTo(GeoLabels, MaxList)]

StageCases ==
    [stage : Range(STAGES),
     target_stages : SeqsUpTo(Range(STAGES) \cup {T_Seed, T_idea}, MaxList)]

NeedCases ==
    [c_needs : SeqsUpTo({T_RDI, T_rdi, T_investments, T_internationalization}, MaxList),
     i_needs : SeqsUpTo({T_RDI, T_Investments, T_working_capital}, MaxList)]

Amounts == {None, Some(0), Some(50000), Some(100000), Some(200000)}

AmountCases == [c_min : Amounts, c_max : Amounts, i_min : Amounts, i_max : Amounts]

IndustryCases ==
    [industry : {T_software_AI, T_Software, T_Unknown, T_62010, T_empty, <<" ", ",">>},
     target_industries : {<<>>, <<T_all>>, <<T_health, T_ALL>>, <<T_software>>,
                          <<T_air>>, <<T_health>>, <<T_health, T_62010>>, <<T_empty>>,
                          <<T_health, T_soft>>}]

\* deadlines around the current date and around 30 days after it (matcher.py:151)
EndDays == (0..MaxDay) \cup {30 + d : d \in 0..(MaxDay + 1)}

Windows ==
    {None, Some(<<>>), Some(<<BlankTok>>), Some(<<JunkTok>>), Some(<<DateTok(0)>>),
     Some(<<DateTok(0), DashTok, JunkTok>>), Some(<<DateTok(0), DashTok>>),
     Some(<<DateTok(0), DashTok, DateTok(0), DashTok, DateTok(30)>>)}
    \cup {Some(<<DateTok(0), BlankTok, DashTok, BlankTok, DateTok(e)>>) : e \in EndDays}
    \cup {Some(<<JunkTok, DashTok, DateTok(e)>>) : e \in EndDays}

TimingCases ==
    [application_type : {"continuous", "call-based", "rolling"},
     application_window : Windows, today : 0..MaxDay]

\* the scenario ctx with the fields of one criterion replaced by those of c
Override(c, ctx) == [f \in DOMAIN ctx |-> IF f \in DOMAIN c THEN c[f] ELSE ctx[f]]

Scenarios ==
    {Override(c, ctx) :
        c \in GeographyCases \cup StageCases \cup NeedCases \cup AmountCases
              \cup IndustryCases \cup TimingCases,
        ctx \in Contexts}

\* models.py:7-17, the fields the scoring reads
CompanyOf(sc) ==
    [country |-> sc.country, stage |-> sc.stage, funding_need_types |-> sc.c_needs,
     funding_amount_min |-> sc.c_min, funding_amount_max |-> sc.c_max,
     industry |-> sc.industry]

\* models.py:20-37, the fields the scoring reads
InstrumentOf(sc) ==
    [geography |-> sc.geography, target_stages |-> sc.target_stages,
     funding_need_types |-> sc.i_needs, min_amount |-> sc.i_min,
     max_amount |-> sc.i_max, target_industries |-> sc.target_industries,
     application_type |-> sc.application_type,
     application_window |-> sc.application_window]

(* --------------- score_instrument, one criterion at a time ------------ *)

ScoreInit ==
    /\ \E sc \in Scenarios :
          /\ company = CompanyOf(sc)
          /\ instrument = InstrumentOf(sc)
          /\ today = sc.today
    /\ pc = "geography"
    /\ acc = NewScore
    /\ INSTRUMENTS = <<>>
    /\ OPENAI_API_KEY = FALSE
    /\ hpc = "off"
    /\ request = None
    /\ profile = None
    /\ scored = <<>>
    /\ llm_answer = None
    /\ llm_explanations = <<>>
    /\ response = None
    /\ lookup_called = FALSE
    /\ rank_called = FALSE
    /\ lookup_answer = None
    /\ workers = [w \in Workers |-> IdleWorker]

Geography ==
    /\ pc = "geography"
    /\ acc' = geography_fit(acc, company, instrument)
    /\ pc' = "stage"
    /\ UNCHANGED <<company, instrument, today, apiVars>>

StageFit ==
    /\ pc = "stage"
    /\ acc' = stage_fit(acc, company, instrument)
    /\ pc' = "needs"
    /\ UNCHANGED <<company, instrument, today, apiVars>>

NeedOverlap ==
    /\ pc = "needs"
    /\ acc' = need_overlap(acc, company, instrument)
    /\ pc' = "amount"
    /\ UNCHANGED <<company, instrument, today, apiVars>>

AmountFit ==
    /\ pc = "amount"
    /\ acc' = amount_fit(acc, company, instrument)
    /\ pc' = "industry"
    /\ UNCHANGED <<company, instrument, today, apiVars>>

IndustryMatch ==
    /\ pc = "industry"
    /\ acc' = industry_match(acc, company, instrument)
    /\ pc' = "timing"
    /\ UNCHANGED <<company, instrument, today, apiVars>>

ApplicationTiming ==
    /\ pc = "timing"
    /\ acc' = application_timing(acc, instrument, today)
    /\ pc' = IF acc'.raised THEN "raised" ELSE "done"
    /\ UNCHANGED <<company, instrument, today, apiVars>>

ScoreNext ==
    \/ Geography
    \/ StageFit
    \/ NeedOverlap
    \/ AmountFit
    \/ IndustryMatch
    \/ ApplicationTiming

SpecScore == ScoreInit /\ [][ScoreNext]_vars

(* ---------------------- matcher.py: validation, ranking --------------- *)

\* the ValueError of a validation helper, or the reason of another refusal: which
\* check failed, the labels it names and the vocabulary it lists
Detail(kind, invalid, allowed) == [kind |-> kind, invalid |-> invalid, allowed |-> allowed]

\* matcher.py:28-31: None, or the ValueError raised
validate_stage(stage) ==
    IF stage \notin Range(STAGES)
    THEN Some(Detail("stage", <<stage>>, STAGES))
    ELSE None

IsUnknownNeed(n) == lower(n) \notin {lower(t) : t \in FUNDING_NEED_TYPES}

\* matcher.py:34-38: None, or the ValueError raised
validate_need_types(needs) ==
    LET invalid == SelectSeq(needs, IsUnknownNeed)
    IN IF invalid # <<>>
       THEN Some(Detail("funding_need_types", invalid, sorted(FUNDING_NEED_TYPES)))
       ELSE None

\* validate without the call of validate_need_types
validate_stage_only(stage, needs) == validate_stage(stage)

\* the try block of main.py:101-105, main.py:180-184 and matcher.py:211-215: the
\* first ValueError raised, or None
validate(stage, needs) ==
    IF ~IsNone(validate_stage(stage)) THEN validate_stage(stage)
    ELSE validate_need_types(needs)

\* list.sort(key=score, reverse=True) with the ties put in reverse input order, as
\* an ascending sort followed by reverse() would leave them
RECURSIVE list_sort_ties_reversed(_)
list_sort_ties_reversed(seq) ==
    IF seq = <<>> THEN <<>>
    ELSE LET x == seq[Len(seq)]
             rest == list_sort_ties_reversed(SubSeq(seq, 1, Len(seq) - 1))
             n == Cardinality({k \in DOMAIN rest : rest[k].score > x.score})
         IN SubSeq(rest, 1, n) \o <<x>> \o SubSeq(rest, n + 1, Len(rest))

\* matcher.py:181: list.sort(key=score, reverse=True); the sort is stable, so an
\* element goes after every earlier element whose score is not lower
RECURSIVE list_sort_reverse(_)
list_sort_reverse(seq) ==
    IF seq = <<>> THEN <<>>
    ELSE LET x == seq[Len(seq)]
             rest == list_sort_reverse(SubSeq(seq, 1, Len(seq) - 1))
             n == Cardinality({k \in DOMAIN rest : rest[k].score >= x.score})
         IN SubSeq(rest, 1, n) \o <<x>> \o SubSeq(rest, n + 1, Len(rest))

\* matcher.py:168-182
rank_instruments(comp, instruments, utcnow) ==
    list_sort_reverse(
        [k \in DOMAIN instruments |->
            LET r == score_instrument(comp, instruments[k], utcnow)
            IN [instrument |-> instruments[k], score |-> r.score, reasons |-> r.reasons]])

(* ------------------------------ ytj_client.py ------------------------- *)

\* what requests.get gives fetch_company_raw: a RequestException (status 0), or a
\* response with its status and, when 200, totalResults and companies
Upstream(status, total, companies) ==
    [status |-> status, total |-> total, companies |-> companies]

\* ytj_client.py:12-36: the YTJError raised, or the Optional raw company returned
fetch_company_raw(resp) ==
    IF resp.status = 0 THEN [raised |-> "YTJError", value |-> None]
    ELSE IF resp.status = 429 THEN [raised |-> "YTJError", value |-> None]
    ELSE IF resp.status >= 400 THEN [raised |-> "YTJError", value |-> None]
    ELSE IF resp.total = 0 THEN [raised |-> "", value |-> None]
    ELSE [raised |-> "",
          value |-> IF resp.companies # <<>> THEN Some(resp.companies[1]) ELSE None]

\* ytj_client.py:38-90: the profile built from the raw company and the payload
build_company_from_ytj(raw, payload) ==
    [country |-> IF IsNone(raw.country) THEN T_Finland
                 ELSE IF Val(raw.country) = T_FI THEN T_Finland
                 ELSE Val(raw.country),
     stage |-> payload.stage,
     funding_need_types |-> payload.funding_need_types,
     funding_amount_min |-> payload.funding_amount_min,
     funding_amount_max |-> payload.funding_amount_max,
     industry |-> IF raw.description # <<>> THEN raw.description
                  ELSE IF raw.tol # <<>> THEN raw.tol
                  ELSE T_Unknown]

(* --------------------------------- llm.py ----------------------------- *)

\* llm.py:19-20
is_configured == OPENAI_API_KEY

\* how the call to the rewrite service ends (llm.py:23-48, 126-127)
LlmFailures == {"http_error", "no_content", "invalid_json", "not_a_dict"}

Nones(n) == [k \in 1..n |-> None]

\* generate_explanations without the "except Exception" of llm.py:136-137
generate_explanations_reraises(n, answer) ==
    IF ~OPENAI_API_KEY THEN [raised |-> "LLMNotConfigured", value |-> <<>>]
    ELSE IF answer.kind \in LlmFailures THEN [raised |-> "Exception", value |-> <<>>]
    ELSE IF answer.kind = "not_a_list" THEN [raised |-> "", value |-> Nones(n)]
    ELSE LET explanations ==
                 IF Len(answer.items) < n
                 THEN answer.items \o Nones(n - Len(answer.items))
                 ELSE answer.items
         IN [raised |-> "", value |-> SubSeq(explanations, 1, n)]

\* generate_explanations without the extend of llm.py:131-132
generate_explanations_no_padding(n, answer) ==
    IF ~OPENAI_API_KEY THEN [raised |-> "LLMNotConfigured", value |-> <<>>]
    ELSE IF answer.kind \in LlmFailures THEN [raised |-> "", value |-> Nones(n)]
    ELSE IF answer.kind = "not_a_list" THEN [raised |-> "", value |-> Nones(n)]
    ELSE [raised |-> "",
          value |-> SubSeq(answer.items, 1, IF Len(answer.items) < n
                                            THEN Len(answer.items) ELSE n)]

\* llm.py:89-137 for n recommendations: the exception raised, or the list returned
generate_explanations(n, answer) ==
    IF ~OPENAI_API_KEY THEN [raised |-> "LLMNotConfigured", value |-> <<>>]
    ELSE IF answer.kind \in LlmFailures THEN [raised |-> "", value |-> Nones(n)]
    ELSE IF answer.kind = "not_a_list" THEN [raised |-> "", value |-> Nones(n)]
    ELSE LET explanations ==
                 IF Len(answer.items) < n
                 THEN answer.items \o Nones(n - Len(answer.items))
                 ELSE answer.items
         IN [raised |-> "", value |-> SubSeq(explanations, 1, n)]

(* ----------------------------- explanations.py ------------------------ *)

\* explanations.py:5-22: the values the sentences are built from
make_explanation(comp, inst) ==
    [stages |-> inst.target_stages, geos |-> inst.geography,
     stage |-> comp.stage, needs |-> comp.funding_need_types,
     sizes |-> IF Truthy(inst.min_amount) \/ Truthy(inst.max_amount)
               THEN Some(<<IF Truthy(inst.min_amount) THEN inst.min_amount ELSE Some(0),
                           IF Truthy(inst.max_amount) THEN inst.max_amount ELSE None>>)
               ELSE None]

(* ------------------------- inputs of the service ---------------------- *)

\* longest catalog loaded
MaxCatalog == 3

WithId(id, inst) ==
    [f \in DOMAIN inst \cup {"id"} |-> IF f = "id" THEN id ELSE inst[f]]

\* The catalog entries drawn: a and b differ in id only (a tie for every company),
\* c is a poor fit, d has a window text that does not parse.
Pool ==
    {WithId("a", InstrumentOf(BestScenario)),
     WithId("b", InstrumentOf(BestScenario)),
     WithId("c", [InstrumentOf(WorstScenario) EXCEPT
                     !.geography = <<T_FI>>,
                     !.funding_need_types = <<T_working_capital>>]),
     WithId("d", [InstrumentOf(MixedScenario) EXCEPT
                     !.application_window = Some(<<JunkTok>>)]),
     WithId("e", [InstrumentOf(BestScenario) EXCEPT !.geography = <<T_US>>])}

\* ids are unique within a catalog
Catalogs ==
    {q \in SeqsUpTo(Pool, MaxCatalog) : \A i, j \in DOMAIN q : i # j => q[i] # q[j]}

RequestStages == {T_seed, T_Seed}

RequestNeeds == {<<T_RDI>>, <<T_rdi, T_Investments>>, <<T_RDI, T_bogus, T_idea>>}

Requests ==
    [endpoint : {"recommendations"}, stage : RequestStages,
     funding_need_types : RequestNeeds, use_llm : BOOLEAN, business_id : {None},
     country : {T_Finland, T_SE}, funding_amount_min : {Some(50000)},
     funding_amount_max : {Some(200000)}, industry : {T_software_AI}]
    \cup
    [endpoint : {"by_business_id"}, stage : RequestStages,
     funding_need_types : RequestNeeds, use_llm : BOOLEAN,
     business_id : {Some("0112038-9"), Some("not-an-id")},
     country : {T_Finland}, funding_amount_min : {None},
     funding_amount_max : {Some(100000)}, industry : {T_empty}]
    \cup
    [endpoint : {"cli"}, stage : RequestStages,
     funding_need_types : RequestNeeds, use_llm : {FALSE},
     business_id : {None, Some("0112038-9")},
     country : {T_SE}, funding_amount_min : {Some(50000)},
     funding_amount_max : {Some(200000)}, industry : {T_software_AI}]

RawCompanies ==
    {[description |-> T_software, tol |-> T_62010, country |-> Some(T_FI)],
     [description |-> T_empty, tol |-> T_62010, country |-> Some(T_SE)],
     [description |-> T_empty, tol |-> T_empty, country |-> None]}

UpstreamAnswers ==
    {Upstream(0, 0, <<>>), Upstream(429, 0, <<>>), Upstream(400, 0, <<>>),
     Upstream(500, 0, <<>>), Upstream(200, 0, <<>>), Upstream(200, 1, <<>>)}
    \cup {Upstream(200, 1, <<raw>>) : raw \in RawCompanies}

\* business identifiers of the registry's form (seven digits, a dash, a check digit)
WellFormedIds == {"0112038-9"}

\* the registry has no company under an identifier that is not of its form
UpstreamAnswersFor(business_id) ==
    IF business_id \in WellFormedIds THEN UpstreamAnswers
    ELSE {a \in UpstreamAnswers : a.companies = <<>>}

\* an item of the "explanations" array that is a JSON object, not a string
JsonObject == "{object}"

\* what the rewrite service answers: a failure, a JSON object whose "explanations"
\* is not a list, or one whose "explanations" is a list of texts, or a list whose last
\* item is a JSON object
LlmAnswers ==
    {[kind |-> k, items |-> <<>>] : k \in LlmFailures \cup {"not_a_list"}}
    \cup {[kind |-> "list", items |-> [j \in 1..n |-> Some("rewritten")]] :
             n \in 0..(MaxCatalog + 1)}
    \cup {[kind |-> "list",
           items |-> [j \in 1..n |-> Some(IF j = n THEN JsonObject ELSE "rewritten")]] :
             n \in 1..MaxCatalog}

(* ------------------------------- main.py ------------------------------ *)

NoDetail == Detail("", <<>>, <<>>)

Refusal(status, detail) == Some([status |-> status, detail |-> detail, body |-> <<>>])

IsApi(r) == r.endpoint \in {"recommendations", "by_business_id"}

\* main.py:53 and main.py:62: the request models type stage as the Literal Stage, so
\* a request with another stage does not reach the endpoint function
StageIsLiteral(stage) == stage \in {T_pre_seed, T_seed, T_growth, T_scale_up}

\* main.py:108-119 and matcher.py:237-248: the profile of a request that names its
\* company itself
ProfileOf(r) ==
    [country |-> r.country, stage |-> r.stage,
     funding_need_types |-> r.funding_need_types,
     funding_amount_min |-> r.funding_amount_min,
     funding_amount_max |-> r.funding_amount_max,
     industry |-> r.industry]

\* main.py:74: llm_explanation is Optional[str]; None and strings validate
IsOptionalStr(item) == IsNone(item) \/ Val(item) # JsonObject

\* main.py:136-169 and main.py:220-253: the list of Recommendation, or the IndexError
\* of llm_explanations[idx], or the ValidationError of Recommendation(...) raised in
\* the loop and answered with status 500
Recommendations(comp, ranked, use_llm, explanations) ==
    IF use_llm /\ explanations # <<>> /\ Len(explanations) < Len(ranked)
    THEN Refusal(500, Detail("IndexError", <<>>, <<>>))
    ELSE IF /\ use_llm /\ explanations # <<>>
            /\ \E idx \in DOMAIN ranked : ~IsOptionalStr(explanations[idx])
    THEN Refusal(500, Detail("ValidationError", <<>>, <<>>))
    ELSE Some([status |-> 200, detail |-> NoDetail,
               body |-> [idx \in DOMAIN ranked |->
                            [instrument |-> ranked[idx].instrument,
                             score |-> ranked[idx].score,
                             reasons |-> ranked[idx].reasons,
                             explanation |-> make_explanation(comp, ranked[idx].instrument),
                             llm_explanation |->
                                 IF use_llm /\ explanations # <<>>
                                 THEN explanations[idx] ELSE None]]])

\* matcher.py:250-258: the ranked list as printed
Printed(ranked) ==
    Some([status |-> 0, detail |-> NoDetail,
          body |-> [idx \in DOMAIN ranked |->
                       [instrument |-> ranked[idx].instrument,
                        score |-> ranked[idx].score,
                        reasons |-> ranked[idx].reasons,
                        explanation |-> None,
                        llm_explanation |-> None]]])

Init ==
    /\ INSTRUMENTS \in Catalogs
    /\ OPENAI_API_KEY \in BOOLEAN
    /\ today \in {0, MaxDay}
    /\ hpc = "idle"
    /\ request = None
    /\ profile = None
    /\ scored = <<>>
    /\ llm_answer = None
    /\ llm_explanations = <<>>
    /\ response = None
    /\ lookup_called = FALSE
    /\ rank_called = FALSE
    /\ lookup_answer = None
    /\ workers = [w \in Workers |-> IdleWorker]
    /\ company = None
    /\ instrument = None
    /\ pc = "off"
    /\ acc = NewScore

\* A request arrives (main.py:96-97, main.py:174-175, matcher.py:185-209).
Receive ==
    /\ hpc = "idle"
    /\ \E r \in Requests :
          /\ request' = Some(r)
          /\ IF IsApi(r) /\ ~StageIsLiteral(r.stage)
             THEN /\ response' = Refusal(422, Detail("stage", <<r.stage>>, STAGES))
                  /\ hpc' = "responded"
             ELSE /\ response' = None
                  /\ hpc' = "validate"
    /\ profile' = None
    /\ scored' = <<>>
    /\ llm_answer' = None
    /\ llm_explanations' = <<>>
    /\ lookup_called' = FALSE
    /\ rank_called' = FALSE
    /\ lookup_answer' = None
    /\ UNCHANGED <<INSTRUMENTS, OPENAI_API_KEY, scoreVars, workers>>

\* main.py:101-119, main.py:180-184, matcher.py:211-218 and 237-248
Validate ==
    /\ hpc = "validate"
    /\ LET r == Val(request)
           err == validate(r.stage, r.funding_need_types)
       IN IF ~IsNone(err)
          THEN /\ response' = Refusal(IF IsApi(r) THEN 400 ELSE 1, Val(err))
               /\ hpc' = "responded"
               /\ profile' = profile
          ELSE IF ~IsNone(r.business_id)
          THEN /\ hpc' = "lookup"
               /\ UNCHANGED <<response, profile>>
          ELSE /\ profile' = Some(ProfileOf(r))
               /\ hpc' = "rank"
               /\ response' = response
    /\ UNCHANGED <<INSTRUMENTS, OPENAI_API_KEY, request, scored, llm_answer,
                   llm_explanations, lookup_called, rank_called, lookup_answer,
                   scoreVars, workers>>

\* main.py:186-205 and matcher.py:219-235: the registry lookup and what follows
\* from its answer
Lookup ==
    /\ hpc = "lookup"
    /\ lookup_called' = TRUE
    /\ \E resp \in UpstreamAnswersFor(Val(Val(request).business_id)) :
          LET r == Val(request)
              got == fetch_company_raw(resp)
          IN /\ lookup_answer' = Some(resp)
             /\ IF got.raised # ""
                THEN /\ response' = Refusal(IF IsApi(r) THEN 502 ELSE 1,
                                            Detail("YTJError", <<>>, <<>>))
                     /\ hpc' = "responded"
                     /\ profile' = profile
                ELSE IF IsNone(got.value)
                THEN /\ response' = Refusal(IF IsApi(r) THEN 404 ELSE 1,
                                            Detail("No company found", <<>>, <<>>))
                     /\ hpc' = "responded"
                     /\ profile' = profile
                ELSE /\ profile' =
                           LET built == build_company_from_ytj(Val(got.value), r)
                           IN Some(IF ~IsApi(r) /\ r.country # T_Finland
                                   THEN [built EXCEPT !.country = r.country]
                                   ELSE built)
                     /\ hpc' = "rank"
                     /\ response' = response
    /\ UNCHANGED <<INSTRUMENTS, OPENAI_API_KEY, request, scored, llm_answer,
                   llm_explanations, rank_called, scoreVars, workers>>

\* main.py:122, main.py:207, matcher.py:250
Rank ==
    /\ hpc = "rank"
    /\ scored' = rank_instruments(Val(profile), INSTRUMENTS, today)
    /\ rank_called' = TRUE
    /\ hpc' = IF Val(request).use_llm THEN "explain" ELSE "respond"
    /\ UNCHANGED <<INSTRUMENTS, OPENAI_API_KEY, request, profile, llm_answer,
                   llm_explanations, response, lookup_called, lookup_answer,
                   scoreVars, workers>>

\* main.py:124-133 and main.py:209-218
Explain ==
    /\ hpc = "explain"
    /\ IF ~is_configured
       THEN /\ response' = Refusal(503, Detail("LLM not configured", <<>>, <<>>))
            /\ hpc' = "responded"
            /\ UNCHANGED <<llm_answer, llm_explanations>>
       ELSE \E answer \in LlmAnswers :
               LET got == generate_explanations(Len(scored), answer)
               IN /\ llm_answer' = Some(answer)
                  /\ IF got.raised = "LLMNotConfigured"
                     THEN /\ response' =
                                Refusal(503, Detail("LLM not configured", <<>>, <<>>))
                          /\ hpc' = "responded"
                          /\ llm_explanations' = llm_explanations
                     ELSE IF got.raised # ""
                     THEN /\ response' =
                                Refusal(502, Detail("LLM generation failed", <<>>, <<>>))
                          /\ hpc' = "responded"
                          /\ llm_explanations' = llm_explanations
                     ELSE /\ llm_explanations' = got.value
                          /\ hpc' = "respond"
                          /\ response' = response
    /\ UNCHANGED <<INSTRUMENTS, OPENAI_API_KEY, request, profile, scored,
                   lookup_called, rank_called, lookup_answer, scoreVars, workers>>

\* main.py:135-169, main.py:220-253, matcher.py:252-258
Respond ==
    /\ hpc = "respond"
    /\ response' =
          IF IsApi(Val(request))
          THEN Recommendations(Val(profile), scored, Val(request).use_llm,
                               llm_explanations)
          ELSE Printed(scored)
    /\ hpc' = "responded"
    /\ UNCHANGED <<INSTRUMENTS, OPENAI_API_KEY, request, profile, scored, llm_answer,
                   llm_explanations, lookup_called, rank_called, lookup_answer,
                   scoreVars, workers>>

\* the response has been sent; the service waits for the next request
Finish ==
    /\ hpc = "responded"
    /\ hpc' = "idle"
    /\ request' = None
    /\ profile' = None
    /\ scored' = <<>>
    /\ llm_answer' = None
    /\ llm_explanations' = <<>>
    /\ response' = None
    /\ lookup_called' = FALSE
    /\ rank_called' = FALSE
    /\ lookup_answer' = None
    /\ UNCHANGED <<INSTRUMENTS, OPENAI_API_KEY, scoreVars, workers>>

Next ==
    \/ Receive
    \/ Validate
    \/ Lookup
    \/ Rank
    \/ Explain
    \/ Respond
    \/ Finish

Spec == Init /\ [][Next]_vars

(* ------------- rank_instruments in concurrent handler threads --------- *)

\* matcher.py:168-172: the call's arguments and scored = []
rank_start(comp) == [company |-> Some(comp), idx |-> 0, scored |-> <<>>, pc |-> "loop"]

\* matcher.py:173-179: one iteration of the loop over the shared list; the pair of
\* the shared list and the thread's locals after it
rank_iteration(catalog, local, utcnow) ==
    LET inst == catalog[local.idx + 1]
        r == score_instrument(Val(local.company), inst, utcnow)
    IN [catalog |-> catalog,
        local |-> [local EXCEPT
                      !.idx = @ + 1,
                      !.scored = Append(@, [instrument |-> inst, score |-> r.score,
                                            reasons |-> r.reasons])]]

\* rank_sort sorting the shared list itself by the scores (instruments.sort) before
\* returning the results
rank_sort_sorts_catalog(catalog, local) ==
    LET ordered == list_sort_reverse(local.scored)
    IN [catalog |-> [k \in DOMAIN ordered |-> ordered[k].instrument],
        local |-> [local EXCEPT !.scored = ordered, !.pc = "done"]]

\* matcher.py:181-182: the sort of the local list and the return
rank_sort(catalog, local) ==
    [catalog |-> catalog,
     local |-> [local EXCEPT !.scored = list_sort_reverse(@), !.pc = "done"]]

\* the profiles of the concurrent requests
ConcurrentProfiles ==
    {CompanyOf(BestScenario), CompanyOf(WorstScenario), CompanyOf(MixedScenario)}

ConcInit ==
    /\ INSTRUMENTS \in Catalogs
    /\ today \in {0, MaxDay}
    /\ workers = [w \in Workers |-> IdleWorker]
    /\ OPENAI_API_KEY = FALSE
    /\ hpc = "off"
    /\ request = None
    /\ profile = None
    /\ scored = <<>>
    /\ llm_answer = None
    /\ llm_explanations = <<>>
    /\ response = None
    /\ lookup_called = FALSE
    /\ rank_called = FALSE
    /\ lookup_answer = None
    /\ company = None
    /\ instrument = None
    /\ pc = "off"
    /\ acc = NewScore

\* a handler thread calls rank_instruments (main.py:122, main.py:207)
RankCall(w) ==
    /\ workers[w].pc = "idle"
    /\ \E comp \in ConcurrentProfiles :
          workers' = [workers EXCEPT ![w] = rank_start(comp)]
    /\ UNCHANGED <<INSTRUMENTS, restVars>>

RankIteration(w) ==
    /\ workers[w].pc = "loop"
    /\ workers[w].idx < Len(INSTRUMENTS)
    /\ LET after == rank_iteration(INSTRUMENTS, workers[w], today)
       IN /\ INSTRUMENTS' = after.catalog
          /\ workers' = [workers EXCEPT ![w] = after.local]
    /\ UNCHANGED restVars

RankSort(w) ==
    /\ workers[w].pc = "loop"
    /\ workers[w].idx >= Len(INSTRUMENTS)
    /\ LET after == rank_sort(INSTRUMENTS, workers[w])
       IN /\ INSTRUMENTS' = after.catalog
          /\ workers' = [workers EXCEPT ![w] = after.local]
    /\ UNCHANGED restVars

\* the handler has used the list; the thread is free for the next request
RankReturn(w) ==
    /\ workers[w].pc = "done"
    /\ workers' = [workers EXCEPT ![w] = IdleWorker]
    /\ UNCHANGED <<INSTRUMENTS, restVars>>

ConcNext ==
    \E w \in Workers :
       \/ RankCall(w)
       \/ RankIteration(w)
       \/ RankSort(w)
       \/ RankReturn(w)

SpecConc == ConcInit /\ [][ConcNext]_vars

(* ===================== properties of score_instrument ================= *)

\* label occurs in the list, letter case ignored
Lists(list, label) == \E k \in DOMAIN list : lower(list[k]) = lower(label)

CanonicalOrder == <<"geography", "stage", "needs", "amount", "industry", "timing">>

Criteria(reasons) == [k \in DOMAIN reasons |-> reasons[k].criterion]

\* the criterion that has just been evaluated appended one reason of its own
OneReasonMore(before, after, criterion) ==
    /\ Len(after.reasons) = Len(before.reasons) + 1
    /\ SubSeq(after.reasons, 1, Len(before.reasons)) = before.reasons
    /\ after.reasons[Len(after.reasons)].criterion = criterion

IsFinnish(country) == lower(country) \in {T_finland, T_fi}

\* C6: the geography contribution as the claim states it
GeographyDelta(country, geography) ==
    IF IsFinnish(country)
    THEN CASE Lists(geography, T_fi) -> 4
           [] \E r \in {T_eu, T_europe, T_nordic} : Lists(geography, r) -> 1
           [] OTHER -> 0 - 8
    ELSE CASE Lists(geography, country) -> 2
           [] \E r \in {T_eu, T_europe} : Lists(geography, r) -> 1
           [] OTHER -> 0 - 5

\* C6: the geography criterion adds 4 / 1 / -8 for a Finnish company and
\* 2 / 1 / -5 for any other, by what the instrument's geography lists (letter case
\* ignored), and appends one reason.
C6_Geography ==
    [][pc = "geography" =>
         /\ acc'.score = acc.score + GeographyDelta(company.country, instrument.geography)
         /\ OneReasonMore(acc, acc', "geography")]_vars

\* C6 witness: a Finnish company against geography ["US"] has been given -8
C6_Witness ==
    /\ pc = "stage"
    /\ company.country = T_Finland
    /\ instrument.geography = <<T_US>>
    /\ acc.score = 0 - 8

StageIndex(s) ==
    CASE s = T_pre_seed -> 0
      [] s = T_seed -> 1
      [] s = T_growth -> 2
      [] s = T_scale_up -> 3

KnownStage(s) == s \in {T_pre_seed, T_seed, T_growth, T_scale_up}

\* C7: the stage contribution as the claim states it
StageDelta(stage, target_stages) ==
    CASE \E k \in DOMAIN target_stages : target_stages[k] = stage -> 5
      [] \E k \in DOMAIN target_stages :
            /\ KnownStage(target_stages[k])
            /\ StageIndex(target_stages[k]) - StageIndex(stage) \in {0 - 1, 1} -> 2
      [] OTHER -> 0 - 4

\* C7: the stage criterion adds 5 when the company stage is a target stage, else 2
\* when a target stage is exactly one step away in pre-seed < seed < growth <
\* scale-up, else -4 (also for no target stages), and appends one reason.
C7_Stage ==
    [][pc = "stage" =>
         /\ acc'.score = acc.score + StageDelta(company.stage, instrument.target_stages)
         /\ OneReasonMore(acc, acc', "stage")]_vars

\* C7 witness: seed against [growth] has been given +2 on top of the geography score
C7_Witness ==
    /\ pc = "needs"
    /\ company.stage = T_seed
    /\ instrument.target_stages = <<T_growth>>
    /\ acc.reasons[2].text = "adjacent to target stages"
    /\ acc.score = GeographyDelta(company.country, instrument.geography) + 2

\* the company needs that the instrument also names, letter case ignored
Matched(c_needs, i_needs) ==
    {lower(c_needs[k]) : k \in {j \in DOMAIN c_needs : Lists(i_needs, c_needs[j])}}

\* C8: the need contribution as the claim states it
NeedDelta(c_needs, i_needs) ==
    CASE c_needs # <<>> /\ \A k \in DOMAIN c_needs : Lists(i_needs, c_needs[k]) -> 6
      [] \E k \in DOMAIN c_needs : Lists(i_needs, c_needs[k]) -> 4
      [] OTHER -> 0 - 4

Ascending(seq) == \A i, j \in DOMAIN seq : i < j => StrLess(seq[i], seq[j])

AmountDelta(c_min, c_max, i_min, i_max) ==
    CASE IsNone(c_min) /\ IsNone(c_max) -> 0
      [] ~IsNone(i_min) /\ ~IsNone(c_max) /\ Val(c_max) < Val(i_min) -> 0 - 5
      [] ~IsNone(i_max) /\ ~IsNone(c_min) /\ Val(c_min) > Val(i_max) -> 0 - 5
      [] OTHER -> 2

\* C9: the amount criterion adds nothing, with a "not provided" reason, when the
\* company gives no amount; else -5 when the company's max is below the instrument's
\* minimum or its min above the instrument's maximum; else +2.
C9_Amount ==
    [][pc = "amount" =>
         /\ acc'.score = acc.score + AmountDelta(company.funding_amount_min,
                                                 company.funding_amount_max,
                                                 instrument.min_amount,
                                                 instrument.max_amount)
         /\ OneReasonMore(acc, acc', "amount")
         /\ (acc'.reasons[Len(acc'.reasons)].text = "not provided") <=>
               (IsNone(company.funding_amount_min) /\ IsNone(company.funding_amount_max))
      ]_vars

\* C9 witness: max 100000 against minimum 200000 has been given -5, citing both
C9_Witness ==
    /\ pc = "industry"
    /\ company.funding_amount_max = Some(100000)
    /\ instrument.min_amount = Some(200000)
    /\ acc.reasons[4].text = "max below instrument minimum"
    /\ acc.reasons[4].args = <<100000, 200000>>

HasText(window) == ~IsNone(window) /\ Val(window) # <<>>

\* C10: the timing contribution as the claim states it, by the days left
UrgencyDelta(days_left) ==
    CASE 0 <= days_left /\ days_left <= 30 -> 2
      [] days_left < 0 -> 0 - 2
      [] OTHER -> 0

\* C10: the timing criterion adds 1 for a continuous instrument; for a call-based
\* one whose window parses it adds 2 when 0 <= days_left <= 30, -2 when days_left < 0
\* and nothing beyond 30 days; for a call-based one whose window text does not parse
\* it adds nothing, appends an explanatory reason and raises no error.
C10_Timing ==
    [][pc = "timing" =>
         /\ instrument.application_type = "continuous" =>
               /\ acc'.score = acc.score + 1
               /\ OneReasonMore(acc, acc', "timing")
         /\ (instrument.application_type = "call-based"
             /\ HasText(instrument.application_window)) =>
               LET end_date == parse_window_end(Val(instrument.application_window))
               IN /\ OneReasonMore(acc, acc', "timing")
                  /\ IF IsNone(end_date)
                     THEN /\ acc'.score = acc.score
                          /\ acc'.reasons[Len(acc'.reasons)].text
                                = "could not parse application window"
                     ELSE acc'.score = acc.score + UrgencyDelta(Val(end_date) - today)
         /\ ~acc'.raised
         /\ pc' = "done"]_vars

\* C10 witness: a call whose deadline is exactly 30 days away has been given +2
C10_Witness ==
    /\ pc = "done"
    /\ instrument.application_type = "call-based"
    /\ HasText(instrument.application_window)
    /\ parse_window_end(Val(instrument.application_window)) = Some(today + 30)
    /\ acc.reasons[6].text = "deadline approaching"
    /\ acc.reasons[6].args = <<30>>

\* C11: the industry contribution as the claim states it
IndustryDelta(industry, target_industries) ==
    LET tokens == Range(split(replace(lower(industry), ",", " ")))
        labels == {lower(target_industries[k]) : k \in DOMAIN target_industries}
    IN CASE Lists(target_industries, T_all) -> 1
         [] \E tok \in tokens, lab \in labels :
               IsSubstring(tok, lab) \/ IsSubstring(lab, tok) -> 3
         [] OTHER -> 0 - 2

\* the timing contribution for every instrument: as in C10, and nothing when the
\* instrument is neither continuous nor a call with a window
TimingDelta(application_type, application_window, now) ==
    CASE application_type = "continuous" -> 1
      [] application_type = "call-based" /\ HasText(application_window)
         /\ ~IsNone(parse_window_end(Val(application_window))) ->
            UrgencyDelta(Val(parse_window_end(Val(application_window))) - now)
      [] OTHER -> 0

\* the company and instrument of the end-to-end example: FI geography, exact stage,
\* full need overlap, amount within range, "all" industries, continuous application
FullMatch ==
    /\ IsFinnish(company.country) /\ Lists(instrument.geography, T_fi)
    /\ company.stage \in Range(instrument.target_stages)
    /\ NeedDelta(company.funding_need_types, instrument.funding_need_types) = 6
    /\ ~IsNone(company.funding_amount_min) /\ ~IsNone(company.funding_amount_max)
    /\ ~IsNone(instrument.min_amount) /\ ~IsNone(instrument.max_amount)
    /\ Val(instrument.min_amount) <= Val(company.funding_amount_min)
    /\ Val(company.funding_amount_min) <= Val(company.funding_amount_max)
    /\ Val(company.funding_amount_max) <= Val(instrument.max_amount)
    /\ Lists(instrument.target_industries, T_all)
    /\ instrument.application_type = "continuous"

\* C5: the score score_instrument returns is the sum of the six contributions, each
\* a function of its own inputs only; a full match scores 4+5+6+2+1+1 = 19 with six
\* reasons in the canonical order.
C5_ScoreIsSum ==
    pc = "done" =>
       /\ acc.score =
             GeographyDelta(company.country, instrument.geography)
             + StageDelta(company.stage, instrument.target_stages)
             + NeedDelta(company.funding_need_types, instrument.funding_need_types)
             + AmountDelta(company.funding_amount_min, company.funding_amount_max,
                           instrument.min_amount, instrument.max_amount)
             + IndustryDelta(company.industry, instrument.target_industries)
             + TimingDelta(instrument.application_type, instrument.application_window,
                           today)
       /\ FullMatch => acc.score = 19 /\ Criteria(acc.reasons) = CanonicalOrder

\* C5 witness: the full match has been scored 19
C5_Witness ==
    /\ pc = "done"
    /\ FullMatch
    /\ acc.score = 19
    /\ Len(acc.reasons) = 6

ValidInstrument == instrument.application_type \in {"continuous", "call-based"}

\* C2: for every valid pair score_instrument returns six reasons, one per criterion
\* in the canonical order, also for a call-based instrument without a window.
C2_SixReasons ==
    (pc = "done" /\ ValidInstrument) => Criteria(acc.reasons) = CanonicalOrder

(* ========================= properties of the service ================== *)

CatalogIndex(inst) == CHOOSE k \in DOMAIN INSTRUMENTS : INSTRUMENTS[k] = inst

\* C1: rank_instruments returns exactly one result per catalog entry, none dropped,
\* duplicated or filtered out, ordered by score descending, with entries of equal
\* score in catalog order.
C1_RankComplete ==
    rank_called =>
       /\ Len(scored) = Len(INSTRUMENTS)
       /\ \A k \in DOMAIN INSTRUMENTS :
             Cardinality({j \in DOMAIN scored : scored[j].instrument = INSTRUMENTS[k]}) = 1
       /\ \A j \in DOMAIN scored :
             /\ scored[j].instrument \in Range(INSTRUMENTS)
             /\ scored[j].score
                   = score_instrument(Val(profile), scored[j].instrument, today).score
       /\ \A i, j \in DOMAIN scored :
             i < j =>
                /\ scored[i].score >= scored[j].score
                /\ scored[i].score = scored[j].score =>
                      CatalogIndex(scored[i].instrument) < CatalogIndex(scored[j].instrument)

\* C1 witness: a ranked list of three with a tie and an entry of negative score
C1_Witness ==
    /\ rank_called
    /\ Len(scored) = 3
    /\ scored[1].score = scored[2].score
    /\ scored[3].score < 0

RequestFailedLlm ==
    /\ ~IsNone(request) /\ Val(request).use_llm
    /\ ~IsNone(llm_answer) /\ Val(llm_answer).kind \in LlmFailures

\* the response carries the whole ranked list, with no rewritten text
FullListWithoutRewrites ==
    /\ Val(response).status = 200
    /\ Len(Val(response).body) = Len(INSTRUMENTS)
    /\ \A k \in DOMAIN Val(response).body :
          /\ Val(response).body[k].instrument = scored[k].instrument
          /\ Val(response).body[k].score = scored[k].score
          /\ Val(response).body[k].reasons = scored[k].reasons
          /\ IsNone(Val(response).body[k].llm_explanation)

AllowedStages == {T_pre_seed, T_seed, T_growth, T_scale_up}

AllowedNeeds == {T_RDI, T_internationalization, T_investments, T_working_capital}

NeedIsAllowed(n) == \E a \in AllowedNeeds : lower(a) = lower(n)

NeedIsInvalid(n) == ~NeedIsAllowed(n)

InvalidRequest(r) ==
    \/ r.stage \notin AllowedStages
    \/ \E k \in DOMAIN r.funding_need_types : NeedIsInvalid(r.funding_need_types[k])

MatchedLabels(industry, target_industries) ==
    LET tokens == Range(split(replace(lower(industry), ",", " ")))
    IN {target_industries[k] :
           k \in {j \in DOMAIN target_industries :
                     \E tok \in tokens :
                        \/ IsSubstring(tok, lower(target_industries[j]))
                        \/ IsSubstring(lower(target_industries[j]), tok)}}

\* C11: the industry criterion adds 1 when the instrument's industries contain "all"
\* (letter case ignored), whatever the company's industry; else 3 when a lowercase
\* token of the industry text (split on blanks and commas) contains or is contained
\* in a lowercased label, with a reason that carries the instrument's labels, the
\* matched one among them; else -2 (also for no tokens or no labels).
C11_Industry ==
    [][pc = "industry" =>
         /\ acc'.score = acc.score + IndustryDelta(company.industry,
                                                   instrument.target_industries)
         /\ OneReasonMore(acc, acc', "industry")
         /\ LET r == acc'.reasons[Len(acc'.reasons)]
            IN /\ Lists(instrument.target_industries, T_all) =>
                     r.text = "open to all industries"
               /\ r.text = "matches instrument focus" =>
                     \E lab \in MatchedLabels(company.industry,
                                              instrument.target_industries) :
                        lab \in Range(r.args[2])
               /\ r.text = "not clearly matched" =>
                     MatchedLabels(company.industry, instrument.target_industries) = {}
      ]_vars

\* C11 witness: "software, AI" against ["air"] has been given +3 (the token ai is
\* contained in air)
C11_Witness ==
    /\ pc = "timing"
    /\ company.industry = T_software_AI
    /\ instrument.target_industries = <<T_air>>
    /\ acc.reasons[5].text = "matches instrument focus"
    /\ acc.reasons[5].args[2] = <<T_air>>

UpstreamFailed(a) == a.status = 0 \/ a.status >= 400

UpstreamNoMatch(a) == a.status = 200 /\ (a.total = 0 \/ a.companies = <<>>)

\* C12: the by-business-id operation answers three causes with three outcomes: a
\* malformed business identifier with a bad request (400), an unavailable or
\* rate-limiting registry with an upstream failure (502 or 503), zero matches with
\* not found (404); and it ranks only when a company was found.
C12_ThreeOutcomes ==
    (/\ ~IsNone(request)
     /\ Val(request).endpoint = "by_business_id"
     /\ ~InvalidRequest(Val(request))) =>
       /\ rank_called =>
             /\ ~IsNone(lookup_answer)
             /\ Val(lookup_answer).status = 200
             /\ Val(lookup_answer).companies # <<>>
       /\ hpc = "responded" =>
             IF Val(Val(request).business_id) \notin WellFormedIds
             THEN Val(response).status = 400
             ELSE /\ (~IsNone(lookup_answer) /\ UpstreamFailed(Val(lookup_answer))) =>
                        Val(response).status \in {502, 503}
                  /\ (~IsNone(lookup_answer) /\ UpstreamNoMatch(Val(lookup_answer))) =>
                        Val(response).status = 404

\* C13: under every interleaving of the threads' steps, a thread's rank_instruments
\* returns the list it returns when run alone on the catalog, and no step of
\* score_instrument or rank_instruments changes the shared catalog or the profile
\* of the request.
C13_Isolation ==
    [][/\ INSTRUMENTS' = INSTRUMENTS
       /\ \A w \in Workers :
             /\ (workers[w].pc # "idle" /\ workers'[w].pc # "idle") =>
                   workers'[w].company = workers[w].company
             /\ workers'[w].pc = "done" =>
                   workers'[w].scored
                      = rank_instruments(Val(workers'[w].company), INSTRUMENTS, today)
      ]_vars

\* C13 witness: one thread has returned a list of three with a tie while the other
\* is in the middle of its loop for another profile
C13_Witness ==
    \E w, v \in Workers :
       /\ workers[w].pc = "done"
       /\ Len(workers[w].scored) = 3
       /\ workers[w].scored[1].score = workers[w].scored[2].score
       /\ workers[v].pc = "loop"
       /\ workers[v].idx = 1
       /\ workers[v].company # workers[w].company

\* the response of the same request without the rewrite step
WithoutRewrite ==
    Val(Recommendations(Val(profile),
                        rank_instruments(Val(profile), INSTRUMENTS, today),
                        FALSE, <<>>))

\* C14: for the same company and catalog, the response carries the same instruments
\* in the same order with the same scores and reasons whether or not the rewrite is
\* requested and whatever the rewrite service answers; only llm_explanation differs.
C14_RewriteOnlyChangesText ==
    (/\ hpc = "responded" /\ rank_called
     /\ ~IsNone(request) /\ IsApi(Val(request))) =>
       /\ Val(response).status = WithoutRewrite.status
       /\ Len(Val(response).body) = Len(WithoutRewrite.body)
       /\ \A k \in DOMAIN Val(response).body :
             /\ Val(response).body[k].instrument = WithoutRewrite.body[k].instrument
             /\ Val(response).body[k].score = WithoutRewrite.body[k].score
             /\ Val(response).body[k].reasons = WithoutRewrite.body[k].reasons
             /\ Val(response).body[k].explanation = WithoutRewrite.body[k].explanation

\* C15: generate_explanations, when it returns, returns as many entries as the ranked
\* list has, aligned with it: the service's items in their order, None after the last
\* item of a list that is too short, nothing beyond the ranked list's length, and None
\* for every entry when the answer is not a list or the call failed; the endpoint's
\* llm_explanations[idx] is never out of range.
C15_Aligned ==
    (/\ hpc \in {"respond", "responded"}
     /\ ~IsNone(llm_answer)) =>
       /\ Len(llm_explanations) = Len(scored)
       /\ \A k \in DOMAIN llm_explanations :
             llm_explanations[k]
                = IF /\ Val(llm_answer).kind = "list"
                     /\ k <= Len(Val(llm_answer).items)
                  THEN Val(llm_answer).items[k]
                  ELSE None
       /\ hpc = "responded" => Val(response).detail.kind # "IndexError"

\* C15 witness: the service gave one text for a ranked list of three; the response
\* carries the text at the first entry and None at the others
C15_Witness ==
    /\ hpc = "responded"
    /\ ~IsNone(llm_answer)
    /\ Val(llm_answer).items = <<Some("rewritten")>>
    /\ Len(scored) = 3
    /\ Val(response).status = 200
    /\ Val(response).body[1].llm_explanation = Some("rewritten")
    /\ IsNone(Val(response).body[2].llm_explanation)
    /\ IsNone(Val(response).body[3].llm_explanation)

ListsFI(inst) == Lists(inst.geography, T_fi)

OutOfRegion(inst) ==
    ~\E r \in {T_fi, T_eu, T_europe, T_nordic} : Lists(inst.geography, r)

\* what the five criteria other than geography contribute
OtherFive(comp, inst, now) ==
    StageDelta(comp.stage, inst.target_stages)
    + NeedDelta(comp.funding_need_types, inst.funding_need_types)
    + AmountDelta(comp.funding_amount_min, comp.funding_amount_max,
                  inst.min_amount, inst.max_amount)
    + IndustryDelta(comp.industry, inst.target_industries)
    + TimingDelta(inst.application_type, inst.application_window, now)

\* C16 as stated: for a Finnish company, in every ranked list every instrument whose
\* geography lists none of fi/eu/europe/nordic is placed after every instrument whose
\* geography lists FI, whatever the other five criteria contribute.
C16_PenaltyDominant ==
    (rank_called /\ IsFinnish(Val(profile).country)) =>
       \A i, j \in DOMAIN scored :
          (ListsFI(scored[i].instrument) /\ OutOfRegion(scored[j].instrument)) => i < j

\* C16 as amended: for a Finnish company the geography criterion puts an instrument
\* that lists FI 12 points ahead of one that lists none of fi/eu/europe/nordic (+4
\* against -8); in a ranked list the out-of-region instrument is placed after the
\* FI-listed one when the other five criteria give it less than 12 points more than
\* they give the FI-listed one, before it when they give it more than 12 points more,
\* and in catalog order when they give it exactly 12 more.
C16_TwelvePointHandicap ==
    (rank_called /\ IsFinnish(Val(profile).country)) =>
       \A i, j \in DOMAIN scored :
          (ListsFI(scored[i].instrument) /\ OutOfRegion(scored[j].instrument)) =>
             LET fi_rest == OtherFive(Val(profile), scored[i].instrument, today)
                 out_rest == OtherFive(Val(profile), scored[j].instrument, today)
             IN /\ scored[i].score = fi_rest + 4
                /\ scored[j].score = out_rest - 8
                /\ out_rest - fi_rest < 12 => i < j
                /\ out_rest - fi_rest > 12 => j < i
                /\ out_rest - fi_rest = 12 =>
                      (i < j <=> CatalogIndex(scored[i].instrument)
                                    < CatalogIndex(scored[j].instrument))

\* C16 witness: a Finnish company's ranked list of three in which the out-of-region
\* instrument is after one FI-listed instrument and before another
C16_Witness ==
    /\ rank_called
    /\ IsFinnish(Val(profile).country)
    /\ Len(scored) = 3
    /\ ListsFI(scored[1].instrument)
    /\ OutOfRegion(scored[2].instrument)
    /\ ListsFI(scored[3].instrument)
    /\ scored[2].score > scored[3].score

====
